---- MODULE Spec2Model ----
(***************************************************************************)
(* Model of python/write_experiment_opc_csv.py: ingestion of CSV exports   *)
(* into a time-series store, with field-type detection, reconciliation     *)
(* against stored types, value coercion, lazy row-to-point conversion and  *)
(* batched writes.                                                         *)
(*                                                                         *)
(* Text is a sequence of one-character strings, so that str.strip,         *)
(* str.lower, float() and datetime.strptime are computed, not assumed.     *)
(* The texts of the pools use the characters space, sign, digits, '.',     *)
(* ':' and letters; they hold no exponent or underscore numerals.          *)
(***************************************************************************)
EXTENDS Integers, Sequences, FiniteSets, TLC

\* ------------------------------------------------------------------------
\* Python values
\* ------------------------------------------------------------------------

\* Python's None (a missing DictReader cell, "no value" of the coercer).
PyNone == [k |-> "none"]

\* A Python str holding the characters s.
PyStr(s) == [k |-> "str", s |-> s]

\* A Python bool.
PyBool(b) == [k |-> "bool", b |-> b]

\* A finite Python float of value m / 10^e, kept normalised by Norm.
PyFloat(m, e) == [k |-> "float", m |-> m, e |-> e]

\* float("inf"), float("-inf"), float("nan").
PyFloatSpecial(name) == [k |-> "float", sp |-> name]

\* The ValueError an operation raises instead of returning.
ValueError == [k |-> "ValueError"]

\* ------------------------------------------------------------------------
\* str.strip, str.lower, float()
\* ------------------------------------------------------------------------

IsSpace(c) == c \in {" ", "\t"}

RECURSIVE LStrip(_)
LStrip(s) == IF s # <<>> /\ IsSpace(Head(s)) THEN LStrip(Tail(s)) ELSE s

RECURSIVE RStrip(_)
RStrip(s) ==
    IF s # <<>> /\ IsSpace(s[Len(s)]) THEN RStrip(SubSeq(s, 1, Len(s) - 1)) ELSE s

\* str.strip()
Strip(s) == RStrip(LStrip(s))

UpperChars ==
    <<"A", "B", "C", "D", "E", "F", "G", "H", "I", "J", "K", "L", "M",
      "N", "O", "P", "Q", "R", "S", "T", "U", "V", "W", "X", "Y", "Z">>

LowerChars ==
    <<"a", "b", "c", "d", "e", "f", "g", "h", "i", "j", "k", "l", "m",
      "n", "o", "p", "q", "r", "s", "t", "u", "v", "w", "x", "y", "z">>

\* The lower-case letter of each upper-case letter, and the converse.
ToLower ==
    [c \in {UpperChars[i] : i \in 1..Len(UpperChars)} |->
        LowerChars[CHOOSE i \in 1..Len(UpperChars) : UpperChars[i] = c]]

ToUpper ==
    [c \in {LowerChars[i] : i \in 1..Len(LowerChars)} |->
        UpperChars[CHOOSE i \in 1..Len(LowerChars) : LowerChars[i] = c]]

LowerChar(c) == IF c \in DOMAIN ToLower THEN ToLower[c] ELSE c

UpperChar(c) == IF c \in DOMAIN ToUpper THEN ToUpper[c] ELSE c

\* str.lower()
Lower(s) == [i \in 1..Len(s) |-> LowerChar(s[i])]

\* str.upper()
Upper(s) == [i \in 1..Len(s) |-> UpperChar(s[i])]

Digits == <<"0", "1", "2", "3", "4", "5", "6", "7", "8", "9">>

\* The value of each digit.
DigitValues ==
    [c \in {Digits[i] : i \in 1..Len(Digits)} |->
        (CHOOSE i \in 1..Len(Digits) : Digits[i] = c) - 1]

IsDigit(c) == c \in DOMAIN DigitValues

DigitVal(c) == DigitValues[c]

AllDigits(s) == \A i \in 1..Len(s) : IsDigit(s[i])

RECURSIVE DigitsValue(_)
DigitsValue(s) ==
    IF s = <<>> THEN 0
    ELSE DigitsValue(SubSeq(s, 1, Len(s) - 1)) * 10 + DigitVal(s[Len(s)])

\* m / 10^e with the trailing zeros of the fraction removed, so that equal
\* numbers are equal values (1.0 = 1 = 1.00, -0.0 = 0.0).
RECURSIVE Norm(_, _)
Norm(m, e) ==
    IF e > 0 /\ m % 10 = 0 THEN Norm(m \div 10, e - 1) ELSE PyFloat(m, e)

\* float(text): surrounding whitespace ignored, an optional sign, then
\* inf / infinity / nan in any case, or decimal digits with at most one
\* point and at least one digit; anything else raises ValueError.
float(text) ==
    LET s      == Strip(text)
        signed == s # <<>> /\ Head(s) \in {"+", "-"}
        neg    == s # <<>> /\ Head(s) = "-"
        body   == IF signed THEN Tail(s) ELSE s
        low    == Lower(body)
        dots   == {i \in 1..Len(body) : body[i] = "."}
        dot    == IF dots = {} THEN Len(body) + 1 ELSE CHOOSE i \in dots : TRUE
        ip     == SubSeq(body, 1, dot - 1)
        fp     == SubSeq(body, dot + 1, Len(body))
        mag    == DigitsValue(ip \o fp)
    IN  IF low \in {<<"i", "n", "f">>, <<"i", "n", "f", "i", "n", "i", "t", "y">>}
        THEN PyFloatSpecial(IF neg THEN "-inf" ELSE "inf")
        ELSE IF low = <<"n", "a", "n">>
        THEN PyFloatSpecial("nan")
        ELSE IF /\ Cardinality(dots) <= 1
                /\ AllDigits(ip) /\ AllDigits(fp)
                /\ Len(ip) + Len(fp) >= 1
        THEN Norm(IF neg THEN 0 - mag ELSE mag, Len(fp))
        ELSE ValueError

\* ------------------------------------------------------------------------
\* Python dict
\* ------------------------------------------------------------------------

EmptyDict == <<>>

\* d.get(key, default)
Get(d, key, default) == IF key \in DOMAIN d THEN d[key] ELSE default

\* d.update(e): the entries of e overwrite those of d.
DictUpdate(d, e) ==
    [key \in DOMAIN d \cup DOMAIN e |-> IF key \in DOMAIN e THEN e[key] ELSE d[key]]

\* d[key] = value
DictSet(d, key, value) ==
    [j \in DOMAIN d \cup {key} |-> IF j = key THEN value ELSE d[j]]

\* ------------------------------------------------------------------------
\* resolve_timezone, parse_timestamp
\* ------------------------------------------------------------------------

NAIVE == <<"N", "A", "I", "V", "E">>

UTC == <<"U", "T", "C">>

\* A name zoneinfo does not know.
UnknownZone == <<"M", "a", "r", "s">>

\* resolve_timezone(name): None for "" or "naive" in any case, timezone.utc
\* for "utc" in any case; ZoneInfo(name) raises for an unknown name.
resolve_timezone(name) ==
    IF name = <<>> \/ Lower(name) = Lower(NAIVE) THEN PyNone
    ELSE IF Upper(name) = UTC THEN [k |-> "tz", name |-> "utc"]
    ELSE ValueError

\* The directives of a strptime format are "%H" and "%M"; every other
\* element of a format is a literal character.
Directives == {"%H", "%M"}

DirectiveMax(d) == IF d = "%H" THEN 23 ELSE 59

\* _strptime's regular expression on s: %H is 2[0-3]|[0-1]\d|\d and %M is
\* [0-5]\d|\d, two digits tried first, one digit on backtracking; the whole
\* of s must be consumed ("unconverted data remains" otherwise).
RECURSIVE StrptimeMatch(_, _, _)
StrptimeMatch(fmt, s, acc) ==
    IF fmt = <<>> THEN (IF s = <<>> THEN acc ELSE ValueError)
    ELSE
      LET d == Head(fmt) IN
      IF d \in Directives
      THEN
        LET two == /\ Len(s) >= 2 /\ IsDigit(s[1]) /\ IsDigit(s[2])
                   /\ DigitsValue(SubSeq(s, 1, 2)) <= DirectiveMax(d)
            one == Len(s) >= 1 /\ IsDigit(s[1])
            r2  == StrptimeMatch(Tail(fmt), SubSeq(s, 3, Len(s)),
                                 DictSet(acc, d, DigitsValue(SubSeq(s, 1, 2))))
            r1  == StrptimeMatch(Tail(fmt), Tail(s),
                                 DictSet(acc, d, DigitVal(s[1])))
        IN  IF two /\ r2 # ValueError THEN r2
            ELSE IF one THEN r1
            ELSE ValueError
      ELSE
        IF s # <<>> /\ Head(s) = d
        THEN StrptimeMatch(Tail(fmt), Tail(s), acc)
        ELSE ValueError

\* datetime.strptime(raw, fmt): a naive datetime (fields a format does not
\* set default to 0), or ValueError.
strptime(raw, fmt) ==
    LET found == StrptimeMatch(fmt, raw, EmptyDict) IN
    IF found = ValueError THEN ValueError
    ELSE [k |-> "datetime", hour |-> Get(found, "%H", 0),
          minute |-> Get(found, "%M", 0), tzinfo |-> PyNone]

\* parse_timestamp(raw, fmt, tzinfo): the parsed naive datetime as it is when
\* tzinfo is None, else given the zone and converted to UTC (the zone of the
\* model is UTC itself, whose conversion keeps the wall clock).
parse_timestamp(raw, fmt, tzinfo) ==
    LET ts == strptime(raw, fmt) IN
    IF ts = ValueError THEN ValueError
    ELSE IF tzinfo = PyNone THEN ts
    ELSE [ts EXCEPT !.tzinfo = [k |-> "tz", name |-> "utc"]]

\* ------------------------------------------------------------------------
\* csv.DictReader
\* ------------------------------------------------------------------------

\* reader.fieldnames: the first record of the file, None for an empty file.
FieldNames(file) == IF file.lines = <<>> THEN PyNone ELSE file.lines[1]

\* The dict of one record under header: a short record leaves the missing
\* cells None (restval). Records of the pools are never longer than the
\* header and never empty.
RowDict(header, record) ==
    [f \in {header[i] : i \in 1..Len(header)} |->
        LET i == CHOOSE j \in 1..Len(header) : header[j] = f IN
        IF i <= Len(record) THEN PyStr(record[i]) ELSE PyNone]

\* The rows DictReader yields for a file, in order.
Rows(file) ==
    IF file.lines = <<>> THEN <<>>
    ELSE [i \in 1..(Len(file.lines) - 1) |-> RowDict(file.lines[1], file.lines[i + 1])]

\* ------------------------------------------------------------------------
\* detect_field_types
\* ------------------------------------------------------------------------

true == <<"t", "r", "u", "e">>

false == <<"f", "a", "l", "s", "e">>

\* The candidate type of one non-empty trimmed text (lines 173-182).
Candidate(text) ==
    IF Lower(text) \in {true, false} THEN "bool"
    ELSE IF float(text) = ValueError THEN "string"
    ELSE "float"

\* candidates: per field the set of candidate types of its non-empty
\* values, over every row of every file (lines 160-183).
Candidates(files) ==
    LET obs == UNION { UNION { { <<f, Candidate(Strip(Rows(files[i])[r][f].s))>> :
                                   f \in { g \in DOMAIN Rows(files[i])[r] :
                                             /\ g # "timestamp"
                                             /\ Rows(files[i])[r][g] # PyNone
                                             /\ Strip(Rows(files[i])[r][g].s) # <<>> } } :
                               r \in 1..Len(Rows(files[i])) } :
                       i \in 1..Len(files) }
    IN  [f \in {o[1] : o \in obs} |-> {o[2] : o \in {p \in obs : p[1] = f}}]

\* Lines 186-192 with "string" tested before "float".
Resolve_string_first(seen) ==
    IF "string" \in seen THEN "string"
    ELSE IF "float" \in seen THEN "float"
    ELSE "bool"

\* The type a set of candidates resolves to (lines 186-192).
Resolve(seen) ==
    IF "float" \in seen THEN "float"
    ELSE IF "string" \in seen THEN "string"
    ELSE "bool"

detect_field_types(files) ==
    LET candidates == Candidates(files) IN
    [f \in DOMAIN candidates |-> Resolve(candidates[f])]

\* ------------------------------------------------------------------------
\* fetch_existing_field_types
\* ------------------------------------------------------------------------

\* A stored integer value (the client returns it as a Python int).
PyInt(n) == [k |-> "int", n |-> n]

\* The Flux query: the measurement's records grouped by _field, then
\* first(): of each group the first record in table order, which for a
\* stored history is its earliest value. history maps each stored field to
\* its values in time order.
FluxFirst(history) ==
    [f \in {g \in DOMAIN history : history[g] # <<>>} |-> history[f][1]]

\* The type recorded for a returned value (lines 214-222); no entry for a
\* null value or a value of any other Python type.
ExistingType(value) ==
    IF value.k = "bool" THEN "bool"
    ELSE IF value.k \in {"int", "float"} THEN "float"
    ELSE IF value.k = "str" THEN "string"
    ELSE "none"

\* fetch_existing_field_types without the try of lines 206-209 taking
\* effect: the records are read whether the query raised or not.
fetch_existing_field_types_unguarded(st) ==
    LET records == FluxFirst(st.history) IN
    [f \in {g \in DOMAIN records : ExistingType(records[g]) # "none"} |->
        ExistingType(records[f])]

\* fetch_existing_field_types: {} when the query raises (the store cannot be
\* reached, the query times out), else the types of the records the query
\* returns.
fetch_existing_field_types(st) ==
    IF st.raises THEN EmptyDict
    ELSE LET records == FluxFirst(st.history) IN
         [f \in {g \in DOMAIN records : ExistingType(records[g]) # "none"} |->
             ExistingType(records[f])]

\* ------------------------------------------------------------------------
\* IngestStats, coerce_field_value
\* ------------------------------------------------------------------------

\* record_skip setting the counter to 1 instead of adding 1 to it.
record_skip_resets(skipped_fields, field) == DictSet(skipped_fields, field, 1)

\* IngestStats.record_skip
record_skip(skipped_fields, field) ==
    DictSet(skipped_fields, field, Get(skipped_fields, field, 0) + 1)

\* coerce_field_value with the Boolean branch accepting "true" and "false"
\* alone, not "1" and "0".
coerce_field_value_no_digits(field, raw, field_types, skipped_fields) ==
    LET text       == Strip(raw)
        field_type == Get(field_types, field, "string")
        lowered    == Lower(text)
    IN  IF text = <<>>
        THEN [ret |-> PyNone, stats |-> skipped_fields]
        ELSE IF field_type = "float"
        THEN IF float(text) # ValueError
             THEN [ret |-> float(text), stats |-> skipped_fields]
             ELSE IF lowered = true
             THEN [ret |-> PyFloat(1, 0), stats |-> skipped_fields]
             ELSE IF lowered = false
             THEN [ret |-> PyFloat(0, 0), stats |-> skipped_fields]
             ELSE [ret |-> PyNone, stats |-> record_skip(skipped_fields, field)]
        ELSE IF field_type = "bool"
        THEN IF lowered = true
             THEN [ret |-> PyBool(TRUE), stats |-> skipped_fields]
             ELSE IF lowered = false
             THEN [ret |-> PyBool(FALSE), stats |-> skipped_fields]
             ELSE [ret |-> PyNone, stats |-> record_skip(skipped_fields, field)]
        ELSE [ret |-> PyStr(text), stats |-> skipped_fields]

\* coerce_field_value(field, raw, field_types, stats): the returned value
\* (PyNone for "no value") and the skipped_fields of stats afterwards.
coerce_field_value(field, raw, field_types, skipped_fields) ==
    LET text       == Strip(raw)
        field_type == Get(field_types, field, "string")
        lowered    == Lower(text)
    IN  IF text = <<>>
        THEN [ret |-> PyNone, stats |-> skipped_fields]
        ELSE IF field_type = "float"
        THEN IF float(text) # ValueError
             THEN [ret |-> float(text), stats |-> skipped_fields]
             ELSE IF lowered = true
             THEN [ret |-> PyFloat(1, 0), stats |-> skipped_fields]
             ELSE IF lowered = false
             THEN [ret |-> PyFloat(0, 0), stats |-> skipped_fields]
             ELSE [ret |-> PyNone, stats |-> record_skip(skipped_fields, field)]
        ELSE IF field_type = "bool"
        THEN IF lowered \in {true, <<"1">>}
             THEN [ret |-> PyBool(TRUE), stats |-> skipped_fields]
             ELSE IF lowered \in {false, <<"0">>}
             THEN [ret |-> PyBool(FALSE), stats |-> skipped_fields]
             ELSE [ret |-> PyNone, stats |-> record_skip(skipped_fields, field)]
        ELSE [ret |-> PyStr(text), stats |-> skipped_fields]

\* ------------------------------------------------------------------------
\* locate_csv_files
\* ------------------------------------------------------------------------

\* Characters in code-point order, for comparing names.
CharOrder ==
    <<" ", "+", "-", ".">> \o Digits \o <<":">> \o UpperChars \o <<"_">> \o LowerChars

\* The rank of each character in that order.
Ranks ==
    [c \in {CharOrder[i] : i \in 1..Len(CharOrder)} |->
        CHOOSE i \in 1..Len(CharOrder) : CharOrder[i] = c]

Ord(c) == Ranks[c]

\* a <= b as Python compares str: by code point, a proper prefix first.
RECURSIVE StrLeq(_, _)
StrLeq(a, b) ==
    IF a = <<>> THEN TRUE
    ELSE IF b = <<>> THEN FALSE
    ELSE IF Head(a) = Head(b) THEN StrLeq(Tail(a), Tail(b))
    ELSE Ord(Head(a)) < Ord(Head(b))

\* sorted(paths) for the files of one directory: by name.
RECURSIVE Sorted(_)
Sorted(files) ==
    IF files = {} THEN <<>>
    ELSE LET first == CHOOSE f \in files : \A g \in files : StrLeq(f.name, g.name)
         IN  <<first>> \o Sorted(files \ {first})

CsvSuffix == <<".", "c", "s", "v">>

\* directory.glob("*.csv"): the entries whose name ends in ".csv".
Glob(entries) ==
    {f \in entries :
        /\ Len(f.name) >= Len(CsvSuffix)
        /\ SubSeq(f.name, Len(f.name) - Len(CsvSuffix) + 1, Len(f.name)) = CsvSuffix}

\* The FileNotFoundError locate_csv_files raises instead of returning.
FileNotFoundError == [k |-> "FileNotFoundError"]

\* locate_csv_files(directory): the sorted matches, FileNotFoundError when
\* there is none.
locate_csv_files(entries) ==
    IF Glob(entries) = {} THEN FileNotFoundError
    ELSE [k |-> "paths", files |-> Sorted(Glob(entries))]

\* ------------------------------------------------------------------------
\* Bounds and input pools
\* ------------------------------------------------------------------------

\* Most rows in the CSV files of one directory, all files together.
MaxRows == 3

\* Largest batch size of a run.
MaxBatch == 2

Header == <<"temp", "timestamp", "alarm">>

\* The CSV records a file may hold after its header.
RowPool ==
    { << <<"2", "1", ".", "5">>, <<"1", ":", "0", "5">>, <<"t", "r", "u", "e">> >>,
      << <<"2", "2", ".", "0">>, <<>>, <<"f", "a", "l", "s", "e">> >>,
      << <<" ", "o", "k", " ">>, <<"2", "3", ":", "5">>, <<>> >>,
      << <<"1">>, <<"9", ":", "9", "9">>, <<"F", "A", "L", "S", "E">> >>,
      << <<"T", "R", "U", "E">> >> }

FileA == <<"a", ".", "c", "s", "v">>

FileB == <<"B", ".", "c", "s", "v">>

\* An entry of the directory that is no CSV file.
Notes == [name |-> <<"a", ".", "t", "x", "t">>, lines |-> << <<<<"x">>>> >>]

RowSeqs == UNION {[1..n -> RowPool] : n \in 0..MaxRows}

CsvFile(name, rows) == [name |-> name, lines |-> <<Header>> \o rows]

\* A CSV file with no line at all.
EmptyFile == [name |-> <<"0", ".", "c", "s", "v">>, lines |-> <<>>]

\* The directories of a run: the notes alone, or the notes, the empty file
\* and CSV files of at most MaxRows rows together, the rows cut into FileB
\* and FileA or all in FileA.
Directories ==
    {{Notes}} \cup
    UNION { UNION { { {Notes, EmptyFile, CsvFile(FileA, rows)},
                      {Notes, EmptyFile, CsvFile(FileB, SubSeq(rows, 1, cut)),
                              CsvFile(FileA, SubSeq(rows, cut + 1, Len(rows)))} } :
                      cut \in 0..Len(rows) } :
              rows \in RowSeqs }

\* The store a run finds: whether its query raises, and the stored history
\* of the measurement, per field in time order.
NoPriorData == [raises |-> FALSE, history |-> EmptyDict]

Stores ==
    { NoPriorData,
      [raises |-> TRUE, history |-> [temp |-> <<PyStr(<<"a">>)>>]],
      [raises |-> FALSE,
       history |-> [temp |-> <<PyBool(TRUE), PyStr(<<"o", "n">>)>>,
                    alarm |-> <<PyFloat(5, 1)>>]],
      [raises |-> FALSE, history |-> [temp |-> <<PyStr(<<"a">>), PyInt(3)>>]] }

\* The batch sizes every directory is run with, on a store without data.
Configs ==
    [batch_size : 1..MaxBatch, timezone_name : {UTC}, store : {NoPriorData}]

\* The other time zones and the other stores, which the directories of
\* FileA alone are run with.
ZoneConfigs ==
    [batch_size : {1}, timezone_name : {NAIVE, UnknownZone}, store : {NoPriorData}]
    \cup [batch_size : {1}, timezone_name : {UTC}, store : Stores \ {NoPriorData}]

ZoneDirectories == {{Notes, EmptyFile, CsvFile(FileA, rows)} : rows \in RowSeqs}

TimestampFormat == <<"%H", ":", "%M">>

Measurement == "experiment_opc"

\* ------------------------------------------------------------------------
\* State
\* ------------------------------------------------------------------------

VARIABLES
    directory,       \* the entries of settings.csv_dir
    store,           \* the stored history of the measurement
    settings,        \* Settings: batch_size, timezone_name, timestamp_format
    pc,              \* position of main / write_points / iter_points
    timezone_info,   \* main's timezone_info
    csv_files,       \* main's csv_files
    existing_types,  \* main's existing_types
    field_types,     \* main's field_types
    stats,           \* IngestStats.skipped_fields
    fi, ri, ci,      \* iter_points: file, row and column being read
    point,           \* iter_points: the point under construction
    yielded,         \* the point iter_points has yielded to write_points
    batch,           \* write_points: batch
    total_points,    \* write_points: total_points
    batches,         \* write_points: batches
    written,         \* the batches write_api.write has received, in order
    error,           \* the exception that ended the run
    summary,         \* what main printed
    points,          \* write_points: the iterable it consumes
    result,          \* write_points: the returned (total_points, batches)
    call,            \* a direct call of coerce_field_value: its arguments
    ret              \* ... and its returned value

vars ==
    <<directory, store, settings, pc, timezone_info, csv_files,
      existing_types, field_types, stats, fi, ri, ci, point, yielded, batch,
      total_points, batches, written, error, summary, points, result, call, ret>>

inputs == <<directory, store, settings>>

genVars == <<fi, ri, ci, point>>

writeVars == <<batch, total_points, batches, written, points, result>>

callVars == <<call, ret>>

\* ------------------------------------------------------------------------
\* main
\* ------------------------------------------------------------------------

Init ==
    /\ \E c \in Configs \cup ZoneConfigs :
          /\ directory \in (IF c \in Configs THEN Directories ELSE ZoneDirectories)
          /\ store = c.store
          /\ settings = [batch_size |-> c.batch_size, timezone_name |-> c.timezone_name,
                         timestamp_format |-> TimestampFormat]
    /\ pc = "resolve_timezone"
    /\ timezone_info = PyNone
    /\ csv_files = <<>>
    /\ existing_types = EmptyDict
    /\ field_types = EmptyDict
    /\ stats = EmptyDict
    /\ fi = 1 /\ ri = 1 /\ ci = 1
    /\ point = PyNone
    /\ yielded = PyNone
    /\ batch = <<>>
    /\ total_points = 0
    /\ batches = 0
    /\ written = <<>>
    /\ error = PyNone
    /\ summary = PyNone
    /\ points = PyNone
    /\ result = PyNone
    /\ call = PyNone
    /\ ret = PyNone

\* main line 339: resolve_timezone returns.
ResolveTimezone ==
    /\ pc = "resolve_timezone"
    /\ resolve_timezone(settings.timezone_name) # ValueError
    /\ timezone_info' = resolve_timezone(settings.timezone_name)
    /\ pc' = "locate"
    /\ UNCHANGED <<inputs, csv_files, existing_types, field_types,
                   stats, genVars, yielded, writeVars, error, summary, callVars>>

\* main line 339: resolve_timezone raises for an unknown zone name.
UnknownTimezone ==
    /\ pc = "resolve_timezone"
    /\ resolve_timezone(settings.timezone_name) = ValueError
    /\ error' = [type |-> "ValueError", what |-> "Unknown time zone"]
    /\ pc' = "error"
    /\ UNCHANGED <<inputs, timezone_info, csv_files, existing_types,
                   field_types, stats, genVars, yielded, writeVars, summary, callVars>>

\* main line 340: locate_csv_files returns the sorted CSV files.
LocateCsvFiles ==
    /\ pc = "locate"
    /\ locate_csv_files(directory) # FileNotFoundError
    /\ csv_files' = locate_csv_files(directory).files
    /\ pc' = "fetch"
    /\ UNCHANGED <<inputs, timezone_info, existing_types, field_types,
                   stats, genVars, yielded, writeVars, error, summary, callVars>>

\* main line 340: locate_csv_files raises when no CSV file is found.
NoCsvFiles ==
    /\ pc = "locate"
    /\ locate_csv_files(directory) = FileNotFoundError
    /\ error' = [type |-> "FileNotFoundError", what |-> "No CSV files found"]
    /\ pc' = "error"
    /\ UNCHANGED <<inputs, timezone_info, csv_files, existing_types,
                   field_types, stats, genVars, yielded, writeVars, summary, callVars>>

\* main lines 347-349: the existing-type query.
FetchExistingFieldTypes ==
    /\ pc = "fetch"
    /\ existing_types' = fetch_existing_field_types(store)
    /\ pc' = "detect"
    /\ UNCHANGED <<inputs, timezone_info, csv_files, field_types, stats, genVars,
                   yielded, writeVars, error, summary, callVars>>

\* main line 350
DetectFieldTypes ==
    /\ pc = "detect"
    /\ field_types' = detect_field_types(csv_files)
    /\ pc' = "update"
    /\ UNCHANGED <<inputs, timezone_info, csv_files, existing_types,
                   stats, genVars, yielded, writeVars, error, summary, callVars>>

\* main line 351
UpdateFieldTypes ==
    /\ pc = "update"
    /\ field_types' = DictUpdate(field_types, existing_types)
    /\ pc' = "call_write_points"
    /\ UNCHANGED <<inputs, timezone_info, csv_files, existing_types,
                   stats, genVars, yielded, writeVars, error, summary, callVars>>

\* main lines 353-368 and write_points lines 316-319: the generator is made
\* (none of its code runs yet) and write_points starts on it.
CallWritePoints ==
    /\ pc = "call_write_points"
    /\ points' = [k |-> "generator"]
    /\ batch' = <<>>
    /\ total_points' = 0
    /\ batches' = 0
    /\ pc' = "pull"
    /\ UNCHANGED <<inputs, timezone_info, csv_files, existing_types,
                   field_types, stats, genVars, yielded, written, result, error,
                   summary, callVars>>

\* ------------------------------------------------------------------------
\* iter_points, run by write_points' "for point in points"
\* ------------------------------------------------------------------------

\* The position of the first row at or after row r of file f: a file with no
\* header (line 271) or no row left is passed over. Past the last file when
\* no row is left.
RECURSIVE Seek(_, _, _)
Seek(files, f, r) ==
    IF f > Len(files) THEN <<f, 1>>
    ELSE IF r > Len(Rows(files[f])) THEN Seek(files, f + 1, 1)
    ELSE <<f, r>>

NextPos == Seek(csv_files, fi, ri)

HasRow == NextPos[1] <= Len(csv_files)

NextRow == Rows(csv_files[NextPos[1]])[NextPos[2]]

\* row.get("timestamp")
RawTimestamp(row) == Get(row, "timestamp", PyNone)

\* "raw_timestamp is None" for "not raw_timestamp".
Falsy_none_only(raw) == raw = PyNone

\* "not raw_timestamp": None or the empty string.
Falsy(raw) == IF raw = PyNone THEN TRUE ELSE raw.s = <<>>

\* Lines 274-276: a row with no timestamp is passed over.
SkipRow ==
    /\ pc = "pull" /\ points.k = "generator"
    /\ HasRow
    /\ Falsy(RawTimestamp(NextRow))
    /\ fi' = NextPos[1]
    /\ ri' = NextPos[2] + 1
    /\ UNCHANGED <<inputs, pc, timezone_info, csv_files, existing_types,
                   field_types, stats, ci, point, yielded, writeVars, error, summary,
                   callVars>>

\* Lines 273-283 with the rows numbered from 0.
TimestampValueError_from_zero(raw, path, row_number) ==
    [type |-> "ValueError", raw |-> raw, path |-> path, row |-> row_number - 1]

\* Lines 280-283: the ValueError raised for a timestamp that does not parse,
\* with the raw text, the path of the file and the number of the row.
TimestampValueError(raw, path, row_number) ==
    [type |-> "ValueError", raw |-> raw, path |-> path, row |-> row_number]

\* Lines 277-283 with write_points submitting the batch it holds when the
\* ValueError passes through it.
TimestampError_flushing ==
    /\ pc = "pull" /\ points.k = "generator"
    /\ HasRow
    /\ ~Falsy(RawTimestamp(NextRow))
    /\ parse_timestamp(RawTimestamp(NextRow).s, settings.timestamp_format,
                       timezone_info) = ValueError
    /\ fi' = NextPos[1]
    /\ ri' = NextPos[2]
    /\ error' = TimestampValueError(RawTimestamp(NextRow).s,
                                    csv_files[NextPos[1]].name, NextPos[2])
    /\ written' = IF batch = <<>> THEN written ELSE Append(written, batch)
    /\ pc' = "error"
    /\ UNCHANGED <<inputs, timezone_info, csv_files, existing_types,
                   field_types, stats, ci, point, yielded, batch, total_points,
                   batches, points, result, summary, callVars>>

\* Lines 277-283: the timestamp does not parse; the ValueError leaves
\* iter_points, write_points and main.
TimestampError ==
    /\ pc = "pull" /\ points.k = "generator"
    /\ HasRow
    /\ ~Falsy(RawTimestamp(NextRow))
    /\ parse_timestamp(RawTimestamp(NextRow).s, settings.timestamp_format,
                       timezone_info) = ValueError
    /\ fi' = NextPos[1]
    /\ ri' = NextPos[2]
    /\ error' = TimestampValueError(RawTimestamp(NextRow).s,
                                    csv_files[NextPos[1]].name, NextPos[2])
    /\ pc' = "error"
    /\ UNCHANGED <<inputs, timezone_info, csv_files, existing_types,
                   field_types, stats, ci, point, yielded, writeVars, summary,
                   callVars>>

\* The first column at or after c that lines 290-293 do not pass over (the
\* timestamp column and the missing cells of a short row are), past the
\* last column when there is none.
RECURSIVE NextColumn(_, _, _)
NextColumn(columns, row, c) ==
    IF c > Len(columns) THEN c
    ELSE IF columns[c] = "timestamp" THEN NextColumn(columns, row, c + 1)
    ELSE IF row[columns[c]] = PyNone THEN NextColumn(columns, row, c + 1)
    ELSE c

\* Lines 277-287: the timestamp parses and the point is made.
BeginPoint ==
    /\ pc = "pull" /\ points.k = "generator"
    /\ HasRow
    /\ ~Falsy(RawTimestamp(NextRow))
    /\ parse_timestamp(RawTimestamp(NextRow).s, settings.timestamp_format,
                       timezone_info) # ValueError
    /\ fi' = NextPos[1]
    /\ ri' = NextPos[2]
    /\ ci' = NextColumn(FieldNames(csv_files[NextPos[1]]), NextRow, 1)
    /\ point' = [k |-> "point", measurement |-> Measurement,
                 tags |-> [source_file |-> csv_files[NextPos[1]].name],
                 time |-> parse_timestamp(RawTimestamp(NextRow).s,
                                          settings.timestamp_format, timezone_info),
                 fields |-> EmptyDict]
    /\ pc' = "fields"
    /\ UNCHANGED <<inputs, timezone_info, csv_files, existing_types,
                   field_types, stats, yielded, writeVars, error, summary, callVars>>

\* The columns of the row being converted, in row.items() order.
Columns == FieldNames(csv_files[fi])

\* Lines 289-297: one column of the row is coerced.
CoerceField ==
    /\ pc = "fields"
    /\ ci <= Len(Columns)
    /\ LET field     == Columns[ci]
           raw_value == Rows(csv_files[fi])[ri][field]
           coerced   == coerce_field_value(field, raw_value.s, field_types, stats)
       IN  /\ stats' = coerced.stats
           /\ point' = IF coerced.ret = PyNone THEN point
                       ELSE [point EXCEPT !.fields = DictSet(@, field, coerced.ret)]
    /\ ci' = NextColumn(Columns, Rows(csv_files[fi])[ri], ci + 1)
    /\ UNCHANGED <<inputs, pc, timezone_info, csv_files, existing_types,
                   field_types, fi, ri, yielded, writeVars, error, summary, callVars>>

\* Line 299: the point is yielded to write_points.
YieldPoint ==
    /\ pc = "fields"
    /\ ci > Len(Columns)
    /\ yielded' = point
    /\ ri' = ri + 1
    /\ pc' = "body"
    /\ UNCHANGED <<inputs, timezone_info, csv_files, existing_types,
                   field_types, stats, fi, ci, point, writeVars, error, summary,
                   callVars>>

\* Line 268: no file is left; the generator is exhausted.
EndOfInput ==
    /\ pc = "pull" /\ points.k = "generator"
    /\ ~HasRow
    /\ fi' = NextPos[1]
    /\ ri' = NextPos[2]
    /\ pc' = "flush"
    /\ UNCHANGED <<inputs, timezone_info, csv_files, existing_types,
                   field_types, stats, ci, point, yielded, writeVars, error, summary,
                   callVars>>

\* ------------------------------------------------------------------------
\* write_points
\* ------------------------------------------------------------------------

\* Line 323 with > for >=.
BatchFull_off_by_one(n, batch_size) == n > batch_size

\* Line 323: whether the batch is written now.
BatchFull(n, batch_size) == n >= batch_size

\* write_points called on a list: the next item of the list.
PullList ==
    /\ pc = "pull" /\ points.k = "list"
    /\ points.next <= Len(points.items)
    /\ yielded' = points.items[points.next]
    /\ points' = [points EXCEPT !.next = @ + 1]
    /\ pc' = "body"
    /\ UNCHANGED <<inputs, timezone_info, csv_files, existing_types,
                   field_types, stats, genVars, batch, total_points, batches, written,
                   result, error, summary, callVars>>

\* write_points called on a list: the list is exhausted.
ListExhausted ==
    /\ pc = "pull" /\ points.k = "list"
    /\ points.next > Len(points.items)
    /\ pc' = "flush"
    /\ UNCHANGED <<inputs, timezone_info, csv_files, existing_types,
                   field_types, stats, genVars, yielded, writeVars, error, summary,
                   callVars>>

\* Lines 322-327: the body of the loop, for the point just produced.
LoopBody ==
    /\ pc = "body"
    /\ LET appended == Append(batch, yielded) IN
       IF BatchFull(Len(appended), settings.batch_size)
       THEN /\ written' = Append(written, appended)
            /\ total_points' = total_points + Len(appended)
            /\ batches' = batches + 1
            /\ batch' = <<>>
       ELSE /\ batch' = appended
            /\ UNCHANGED <<written, total_points, batches>>
    /\ yielded' = PyNone
    /\ pc' = "pull"
    /\ UNCHANGED <<inputs, timezone_info, csv_files, existing_types,
                   field_types, stats, genVars, points, result, error, summary,
                   callVars>>

\* Lines 329-334: the last, partial batch and the returned totals.
FinalFlush ==
    /\ pc = "flush"
    /\ IF batch # <<>>
       THEN /\ written' = Append(written, batch)
            /\ total_points' = total_points + Len(batch)
            /\ batches' = batches + 1
       ELSE UNCHANGED <<written, total_points, batches>>
    /\ result' = <<total_points', batches'>>
    /\ pc' = "returned"
    /\ UNCHANGED <<inputs, timezone_info, csv_files, existing_types,
                   field_types, stats, genVars, yielded, batch, points, error,
                   summary, callVars>>

\* main lines 370-380: the summary of a run that did not raise.
PrintSummary ==
    /\ pc = "returned" /\ points.k = "generator"
    /\ summary' = [points |-> result[1], batches |-> result[2],
                   files |-> Len(csv_files), skipped |-> stats]
    /\ pc' = "done"
    /\ UNCHANGED <<inputs, timezone_info, csv_files, existing_types,
                   field_types, stats, genVars, yielded, writeVars, error, callVars>>

Next ==
    \/ ResolveTimezone
    \/ UnknownTimezone
    \/ LocateCsvFiles
    \/ NoCsvFiles
    \/ FetchExistingFieldTypes
    \/ DetectFieldTypes
    \/ UpdateFieldTypes
    \/ CallWritePoints
    \/ SkipRow
    \/ TimestampError
    \/ BeginPoint
    \/ CoerceField
    \/ YieldPoint
    \/ EndOfInput
    \/ LoopBody
    \/ FinalFlush
    \/ PrintSummary

\* A run of main.
Spec == Init /\ [][Next]_vars

\* ------------------------------------------------------------------------
\* write_points on a list of points
\* ------------------------------------------------------------------------

\* Most points of a list handed to write_points.
MaxPoints == 5

PointPool ==
    { [k |-> "point", measurement |-> Measurement, tags |-> [source_file |-> FileA],
       time |-> [k |-> "datetime", hour |-> 1, minute |-> 5, tzinfo |-> PyNone],
       fields |-> [temp |-> PyFloat(215, 1)]],
      [k |-> "point", measurement |-> Measurement, tags |-> [source_file |-> FileB],
       time |-> [k |-> "datetime", hour |-> 23, minute |-> 5, tzinfo |-> PyNone],
       fields |-> EmptyDict] }

InitWrite ==
    /\ directory = {}
    /\ store = NoPriorData
    /\ \E b \in 1..MaxBatch :
          settings = [batch_size |-> b, timezone_name |-> UTC,
                      timestamp_format |-> TimestampFormat]
    /\ pc = "pull"
    /\ timezone_info = PyNone
    /\ csv_files = <<>>
    /\ existing_types = EmptyDict
    /\ field_types = EmptyDict
    /\ stats = EmptyDict
    /\ fi = 1 /\ ri = 1 /\ ci = 1
    /\ point = PyNone
    /\ yielded = PyNone
    /\ batch = <<>>
    /\ total_points = 0
    /\ batches = 0
    /\ written = <<>>
    /\ error = PyNone
    /\ summary = PyNone
    /\ \E items \in UNION {[1..n -> PointPool] : n \in 0..MaxPoints} :
          points = [k |-> "list", items |-> items, next |-> 1]
    /\ result = PyNone
    /\ call = PyNone
    /\ ret = PyNone

NextWrite ==
    \/ PullList
    \/ ListExhausted
    \/ LoopBody
    \/ FinalFlush

\* write_points(client, bucket, org, points, batch_size) for a list points.
SpecWrite == InitWrite /\ [][NextWrite]_vars

\* ------------------------------------------------------------------------
\* coerce_field_value called on its own
\* ------------------------------------------------------------------------

\* Most skips recorded in the IngestStats of the calls.
MaxSkips == 2

CoerceFields == {"temp", "alarm", "extra"}

FieldTypes == {"float", "bool", "string"}

\* The TypeTables of the calls: every table over temp and alarm.
TypeTables ==
    UNION {[names -> FieldTypes] : names \in SUBSET {"temp", "alarm"}}

RawTexts ==
    { <<>>, <<" ">>, <<" ", " ">>,
      <<"2", "1", ".", "5">>, <<" ", "2", "1", ".", "5", "0", " ">>, <<"-", "3">>,
      <<"1">>, <<"0">>, <<"1", ".">>, <<"1", ".", "0">>,
      <<"t", "r", "u", "e">>, <<"T", "R", "U", "E">>, <<" ", "T", "r", "u", "e">>,
      <<"f", "a", "l", "s", "e">>, <<"F", "a", "l", "s", "e", " ">>,
      <<"o", "k">>, <<" ", "O", "k", " ">>, <<"n", "a", "n">>, <<"1", " ", "0">> }

RECURSIVE SumOver(_, _)
SumOver(d, keys) ==
    IF keys = {} THEN 0
    ELSE LET key == CHOOSE j \in keys : TRUE
         IN  d[key] + SumOver(d, keys \ {key})

InitCoerce ==
    /\ directory = {}
    /\ store = NoPriorData
    /\ settings = [batch_size |-> 1, timezone_name |-> UTC,
                   timestamp_format |-> TimestampFormat]
    /\ pc = "coerce"
    /\ timezone_info = PyNone
    /\ csv_files = <<>>
    /\ existing_types = EmptyDict
    /\ field_types \in TypeTables
    /\ stats = EmptyDict
    /\ fi = 1 /\ ri = 1 /\ ci = 1
    /\ point = PyNone
    /\ yielded = PyNone
    /\ batch = <<>>
    /\ total_points = 0
    /\ batches = 0
    /\ written = <<>>
    /\ error = PyNone
    /\ summary = PyNone
    /\ points = PyNone
    /\ result = PyNone
    /\ call = PyNone
    /\ ret = PyNone

\* One call coerce_field_value(field, raw, field_types, stats).
CoerceCall ==
    /\ pc = "coerce"
    /\ SumOver(stats, DOMAIN stats) < MaxSkips
    /\ \E field \in CoerceFields, raw \in RawTexts :
          LET coerced == coerce_field_value(field, raw, field_types, stats) IN
          /\ call' = [field |-> field, raw |-> raw]
          /\ ret' = coerced.ret
          /\ stats' = coerced.stats
    /\ UNCHANGED <<inputs, pc, timezone_info, csv_files, existing_types, field_types,
                   genVars, yielded, writeVars, error, summary>>

NextCoerce == CoerceCall

\* Calls of coerce_field_value on one TypeTable and one IngestStats.
SpecCoerce == InitCoerce /\ [][NextCoerce]_vars

\* ------------------------------------------------------------------------
\* Properties
\* ------------------------------------------------------------------------

\* The points of a sequence of batches, in order.
RECURSIVE Flatten(_)
Flatten(bs) == IF bs = <<>> THEN <<>> ELSE Head(bs) \o Flatten(Tail(bs))

IsPrefix(a, b) == Len(a) <= Len(b) /\ SubSeq(b, 1, Len(a)) = a

\* The type a TypeTable gives a field: its entry, String for a missing one.
TypeOf(field, table) == IF field \in DOMAIN table THEN table[field] ELSE "string"

\* What the coercion rules give for a field of type ty and the raw text,
\* with the tokens "true" and "false" of a Float field matched by
\* tokenOf(trimmed text).
Coerced(ty, raw, tokenOf(_)) ==
    LET text == Strip(raw) IN
    IF text = <<>> THEN PyNone
    ELSE CASE ty = "float" ->
                IF float(text) # ValueError THEN float(text)
                ELSE IF tokenOf(text) = <<"t", "r", "u", "e">> THEN PyFloat(1, 0)
                ELSE IF tokenOf(text) = <<"f", "a", "l", "s", "e">> THEN PyFloat(0, 0)
                ELSE PyNone
           [] ty = "bool" ->
                IF Lower(text) \in {<<"t", "r", "u", "e">>, <<"1">>} THEN PyBool(TRUE)
                ELSE IF Lower(text) \in {<<"f", "a", "l", "s", "e">>, <<"0">>}
                THEN PyBool(FALSE)
                ELSE PyNone
           [] OTHER -> PyStr(text)

Literal(text) == text

\* C1 as stated: the value coerce_field_value returns is, for every field,
\* raw text and TypeTable, no value for an empty trimmed text; for a Float
\* field the parsed number, else 1.0 / 0.0 for the literal token "true" /
\* "false", else no value; for a Boolean field true / false for
\* case-insensitive "true","1" / "false","0", else no value; for a String
\* field (or a field the TypeTable lacks) the trimmed text.
C1_LiteralTokens ==
    call # PyNone =>
        ret = Coerced(TypeOf(call.field, field_types), call.raw, Literal)

\* C1 amended: as C1, with the tokens "true" and "false" of a Float field
\* matched in any case.
C1_Coercion ==
    call # PyNone =>
        ret = Coerced(TypeOf(call.field, field_types), call.raw, Lower)

\* C1 witness: a Float field whose text is no number but the token "true"
\* in upper case has been coerced to 1.0.
C1_Witness ==
    /\ call # PyNone
    /\ TypeOf(call.field, field_types) = "float"
    /\ call.raw = <<"T", "R", "U", "E">>
    /\ ret = PyFloat(1, 0)

\* ceil(n / b)
CeilDiv(n, b) == (n + b - 1) \div b

\* C3: write_points on N points with batch size B >= 1 hands the writer
\* contiguous batches whose concatenation is the input; every batch but the
\* last holds exactly B points and the last between 1 and B; the returned
\* totals are (N, ceil(N / B)).
C3_Batches ==
    LET B == settings.batch_size
        N == Len(points.items)
    IN  /\ IsPrefix(Flatten(written), points.items)
        /\ \A i \in 1..Len(written) : Len(written[i]) \in 1..B
        /\ \A i \in 1..(Len(written) - 1) : Len(written[i]) = B
        /\ pc = "returned" =>
              /\ Flatten(written) = points.items
              /\ result = <<N, CeilDiv(N, B)>>
              /\ Len(written) = CeilDiv(N, B)

\* C3 witness: batch size 2 and 5 points gave batches of sizes 2, 2, 1 and
\* the totals (5, 3).
C3_Witness ==
    /\ pc = "returned"
    /\ settings.batch_size = 2
    /\ Len(points.items) = 5
    /\ Len(written) = 3
    /\ Len(written[1]) = 2 /\ Len(written[2]) = 2 /\ Len(written[3]) = 1
    /\ result = <<5, 3>>

\* ------------------------------------------------------------------------
\* Properties of a run, stated on its input
\* ------------------------------------------------------------------------

\* The CSV files of the directory by ascending name: what csv_files is from
\* line 340 on.
FilesInOrder ==
    LET csv == {f \in directory :
                  /\ Len(f.name) >= 4
                  /\ SubSeq(f.name, Len(f.name) - 3, Len(f.name)) = <<".", "c", "s", "v">>}
    IN  [i \in 1..Cardinality(csv) |->
            CHOOSE f \in csv : Cardinality({g \in csv : StrLeq(g.name, f.name)}) = i]

\* The rows of a sequence of files in reading order, each with the name of
\* its file and its number in the file.
RECURSIVE AllRows(_)
AllRows(files) ==
    IF files = <<>> THEN <<>>
    ELSE LET rows == Rows(Head(files)) IN
         [i \in 1..Len(rows) |-> [path |-> Head(files).name, n |-> i, row |-> rows[i]]]
         \o AllRows(Tail(files))

InputRows == AllRows(csv_files)

\* The row's timestamp column is present and non-empty.
HasTimestamp(r) ==
    /\ "timestamp" \in DOMAIN r.row
    /\ r.row["timestamp"] # PyNone
    /\ r.row["timestamp"].s # <<>>

\* ... and does not match the configured format.
BadTimestamp(r) ==
    /\ HasTimestamp(r)
    /\ strptime(r.row["timestamp"].s, settings.timestamp_format) = ValueError

\* The index of the first row of rows with a bad timestamp, Len(rows) + 1
\* when there is none.
FirstBad(rows) ==
    IF \E i \in 1..Len(rows) : BadTimestamp(rows[i])
    THEN CHOOSE i \in 1..Len(rows) :
            BadTimestamp(rows[i]) /\ \A j \in 1..(i - 1) : ~BadTimestamp(rows[j])
    ELSE Len(rows) + 1

\* The rows read before the run ends: all of them, or those before the
\* first bad timestamp.
Before(rows, bad) == SubSeq(rows, 1, bad - 1)

\* The datapoint of a row under a TypeTable: tagged with its file's name,
\* with exactly the non-timestamp columns whose coercion yields a value.
PointOf(r, table) ==
    LET value == [f \in {g \in DOMAIN r.row \ {"timestamp"} : r.row[g] # PyNone} |->
                     Coerced(TypeOf(f, table), r.row[f].s, Lower)]
    IN  [k |-> "point", measurement |-> Measurement,
         tags |-> [source_file |-> r.path],
         time |-> parse_timestamp(r.row["timestamp"].s, settings.timestamp_format,
                                  timezone_info),
         fields |-> [f \in {g \in DOMAIN value : value[g] # PyNone} |-> value[f]]]

\* One datapoint per row with a timestamp, in order.
RECURSIVE PointsOf(_, _)
PointsOf(rows, table) ==
    IF rows = <<>> THEN <<>>
    ELSE (IF HasTimestamp(Head(rows)) THEN <<PointOf(Head(rows), table)>> ELSE <<>>)
         \o PointsOf(Tail(rows), table)

\* The datapoints iter_points has yielded so far: those written, those in
\* the batch and the one write_points is about to append.
Produced ==
    Flatten(written)
    \o (IF pc \in {"returned", "done"} THEN <<>> ELSE batch)
    \o (IF pc = "body" THEN <<yielded>> ELSE <<>>)

\* The run ended with a timestamp that did not parse.
TimestampFailed == pc = "error" /\ "row" \in DOMAIN error

\* main is past line 351: the TypeTable is made.
Converting == pc \in {"call_write_points", "pull", "fields", "body", "flush",
                      "returned", "done"} \/ TimestampFailed

\* C4: the datapoints iter_points yields are, in sorted-file order then row
\* order, one per row with a present, non-empty timestamp and none for the
\* other rows, each tagged with its file's name and holding exactly the
\* columns whose coercion yields a value; a row without timestamp is passed
\* over without error and without touching IngestStats.
C4_OnePointPerRow ==
    /\ [](LET rows == InputRows
              read == Before(rows, FirstBad(rows))
          IN  IF pc \in {"flush", "returned", "done"}
              THEN Produced = PointsOf(rows, field_types)
              ELSE IF TimestampFailed
              THEN Produced = PointsOf(read, field_types)
              ELSE /\ IsPrefix(Produced, PointsOf(read, field_types))
                   /\ pc = "fetch" => csv_files = FilesInOrder)
    /\ [][/\ pc # "locate" => csv_files' = csv_files
          /\ pc = "pull" /\ pc' = "pull" =>
                /\ ~HasTimestamp([row |-> NextRow])
                /\ stats' = stats /\ Produced' = Produced /\ error' = error]_vars

\* C4 witness: a finished run over two files that passed over a row with an
\* empty or no timestamp and yielded points of both files, one of them with
\* no field.
C4_Witness ==
    /\ pc = "done"
    /\ \E i \in 1..Len(InputRows) : InputRows[i].row["timestamp"] \in {PyNone, PyStr(<<>>)}
    /\ \E i, j \in 1..Len(Produced) :
          /\ i < j
          /\ Produced[i].tags.source_file = FileB
          /\ Produced[j].tags.source_file = FileA
          /\ Produced[j].fields = EmptyDict

\* C5: a non-empty timestamp that does not match the format ends the run in
\* an error that carries the file path, the row number and the raw text; no
\* batch is submitted from then on, and the batches submitted before stay.
C5_TimestampError ==
    /\ [](LET rows == InputRows
              bad  == FirstBad(rows)
          IN  /\ TimestampFailed =>
                    /\ bad <= Len(rows)
                    /\ error.path = rows[bad].path
                    /\ error.row = rows[bad].n
                    /\ error.raw = rows[bad].row["timestamp"].s
              /\ pc \in {"flush", "returned", "done"} => bad > Len(rows))
    /\ [][/\ IsPrefix(written, written')
          /\ pc' = "error" => written' = written
          /\ pc # "error"]_vars

\* C5 witness: the run failed at row 2 of FileA after a batch was submitted.
C5_Witness ==
    /\ TimestampFailed
    /\ error.path = FileA /\ error.row = 2
    /\ Len(written) >= 1

\* C10: when a timestamp fails to parse after k datapoints were converted,
\* exactly floor(k / B) * B of them have been submitted; the other k mod B
\* stay in the batch, never submitted, and no summary is reported.
C10_PartialBatchLost ==
    TimestampFailed =>
        LET B    == settings.batch_size
            rows == InputRows
            k    == Len(PointsOf(Before(rows, FirstBad(rows)), field_types))
        IN  /\ Len(Produced) = k
            /\ Len(Flatten(written)) = (k \div B) * B
            /\ Len(batch) = k % B
            /\ Len(batch) < B
            /\ batch = SubSeq(Produced, (k \div B) * B + 1, k)
            /\ summary = PyNone
            /\ result = PyNone

\* C10 witness: a failure with batch size 2 that left one converted
\* datapoint unsubmitted.
C10_Witness ==
    /\ TimestampFailed
    /\ settings.batch_size = 2
    /\ Len(batch) = 1
    /\ written = <<>>

\* C9: conversion and submission interleave: at most B datapoints are
\* converted and not yet submitted, no row is read or converted while a full
\* batch waits, and the TypeTable is complete before the first row is read
\* and does not change afterwards.
C9_Lazy ==
    /\ [](LET B == settings.batch_size IN
          /\ Len(Produced) - Len(Flatten(written)) <= B
          /\ pc \in {"pull", "fields"} => Len(batch) < B
          /\ ~Converting => fi = 1 /\ ri = 1 /\ point = PyNone /\ Produced = <<>>)
    /\ [][Converting => field_types' = field_types]_vars

\* C9 witness: with batch size 2, the third row is being converted after
\* the batch of the first two was submitted.
C9_Witness ==
    /\ pc = "fields"
    /\ settings.batch_size = 2
    /\ Len(written) = 1
    /\ batch = <<>>

\* main is past line 349: the existing-type query has been made.
Fetched == pc \in {"detect", "update"} \/ Converting

\* The non-empty trimmed values of column f over every row of every file,
\* rows without timestamp included.
ValuesOf(f) ==
    LET rows == InputRows IN
    {Strip(rows[i].row[f].s) :
        i \in {j \in 1..Len(rows) :
                 /\ f \in DOMAIN rows[j].row
                 /\ rows[j].row[f] # PyNone}} \ {<<>>}

IsNumber(text) == float(text) # ValueError

IsTrueFalse(text) == Lower(text) \in {<<"t", "r", "u", "e">>, <<"f", "a", "l", "s", "e">>}

\* C2: the type field f is coerced with is the existing type of f when the
\* existing TypeTable has one; else Float when a non-empty value of f is a
\* number; else String when a non-empty value of f is neither a number nor
\* "true"/"false" in any case; else Boolean when f has a non-empty value;
\* else String.
C2_TypeUsed ==
    Converting =>
        \A f \in {Header[i] : i \in 1..Len(Header)} \ {"timestamp"} :
            LET values == ValuesOf(f) IN
            TypeOf(f, field_types) =
                IF f \in DOMAIN existing_types THEN existing_types[f]
                ELSE IF \E v \in values : IsNumber(v) THEN "float"
                ELSE IF \E v \in values : ~IsNumber(v) /\ ~IsTrueFalse(v) THEN "string"
                ELSE IF values # {} THEN "bool"
                ELSE "string"

\* C2 witness: a finished run where temp has numbers and other text and
\* its existing type String wins, alarm has no existing type and only
\* "true"/"false" values, and the first datapoint holds both as such.
C2_Witness ==
    /\ pc = "done"
    /\ existing_types = [temp |-> "string"]
    /\ \E v \in ValuesOf("temp") : IsNumber(v)
    /\ \E v \in ValuesOf("temp") : ~IsNumber(v)
    /\ Get(field_types, "alarm", "string") = "bool"
    /\ Produced # <<>>
    /\ Produced[1].fields = [temp |-> PyStr(<<"2", "1", ".", "5">>), alarm |-> PyBool(TRUE)]

\* The rows iter_points is past: every row before (fi, ri).
RECURSIVE RowsBefore(_)
RowsBefore(f) ==
    IF f = 0 THEN 0 ELSE Len(Rows(csv_files[f])) + RowsBefore(f - 1)

Consumed == IF csv_files = <<>> THEN 0 ELSE RowsBefore(fi - 1) + (ri - 1)

\* The coercion of column f of row r has a non-empty trimmed text and
\* yields no value.
Failed(f, r) ==
    /\ f \in DOMAIN r.row \ {"timestamp"}
    /\ r.row[f] # PyNone
    /\ Strip(r.row[f].s) # <<>>
    /\ Coerced(TypeOf(f, field_types), r.row[f].s, Lower) = PyNone

\* The position of column f in a header.
ColumnIndex(columns, f) == CHOOSE i \in 1..Len(columns) : columns[i] = f

\* The failed coercions of field f so far: in the rows with a timestamp
\* that were converted, and in the columns before ci of the row being
\* converted.
FailedSoFar(f) ==
    LET rows == InputRows
        n    == Consumed
    IN  Cardinality({i \in 1..n : HasTimestamp(rows[i]) /\ Failed(f, rows[i])})
        + (IF /\ pc = "fields"
              /\ f \in DOMAIN rows[n + 1].row
              /\ ColumnIndex(Columns, f) < ci
              /\ Failed(f, rows[n + 1])
           THEN 1 ELSE 0)

\* C6: in every state of a run the skip counter of each field is the number
\* of coercions made so far for it whose trimmed text was non-empty and
\* yielded no value; a step adds 1 to at most one counter, only by such a
\* coercion, and no counter decreases.
C6_SkipCounters ==
    /\ [](\A f \in DOMAIN stats \cup {Header[i] : i \in 1..Len(Header)} :
             Get(stats, f, 0) = FailedSoFar(f))
    /\ [][/\ \A f \in DOMAIN stats : f \in DOMAIN stats' /\ stats'[f] >= stats[f]
          /\ stats' # stats =>
                /\ pc = "fields"
                /\ Failed(Columns[ci], InputRows[Consumed + 1])
                /\ stats' = DictSet(stats, Columns[ci], Get(stats, Columns[ci], 0) + 1)]_vars

\* C6 witness: a finished run that counted two failed coercions of temp
\* and none of alarm, over rows with an empty value and a row without
\* timestamp.
C6_Witness ==
    /\ pc = "done"
    /\ stats = [temp |-> 2]
    /\ \E i \in 1..Len(InputRows) : ~HasTimestamp(InputRows[i])
    /\ \E i \in 1..Len(InputRows) :
          /\ HasTimestamp(InputRows[i])
          /\ "alarm" \in DOMAIN InputRows[i].row
          /\ InputRows[i].row["alarm"] = PyStr(<<>>)

\* C7 as stated: after a query that did not fail, every stored field has
\* the type of the most recent stored value of its history.
C7_MostRecent ==
    Fetched /\ ~store.raises =>
        \A f \in DOMAIN store.history :
            /\ f \in DOMAIN existing_types
            /\ existing_types[f] = ExistingType(store.history[f][Len(store.history[f])])

\* C8: when the existing-type query fails or returns nothing, the step of
\* the query leads on to detection with no error, the existing TypeTable is
\* empty, the TypeTable used is the detected one, and the datapoints
\* converted and submitted are those of the rows under the detected types,
\* all of them once the run is done.
C8_QueryFailure ==
    /\ [](store.raises \/ store.history = EmptyDict =>
            /\ Fetched => existing_types = EmptyDict
            /\ pc = "call_write_points" => field_types = detect_field_types(csv_files)
            /\ pc = "done" \/ TimestampFailed =>
                  /\ field_types = detect_field_types(csv_files)
                  /\ Produced = PointsOf(Before(InputRows, FirstBad(InputRows)),
                                         detect_field_types(csv_files))
            /\ pc = "done" =>
                  /\ FirstBad(InputRows) > Len(InputRows)
                  /\ Flatten(written) = Produced
                  /\ summary.points = Len(Produced))
    /\ [][store.raises \/ store.history = EmptyDict =>
            /\ pc = "fetch" => pc' = "detect" /\ error' = error
            /\ Converting => field_types' = field_types /\ existing_types' = existing_types]_vars

\* C8 witness: a run whose query raised is done, with temp detected as
\* Float and two datapoints submitted.
C8_Witness ==
    /\ store.raises
    /\ pc = "done"
    /\ Get(field_types, "temp", "string") = "float"
    /\ Len(Flatten(written)) >= 2

====
